---- MODULE Spec2Model ----
(***************************************************************************)
(* protojson encoder (encoding/protojson/encode.go): MarshalOptions.Marshal *)
(* and the reflective traversal below it.  A message is encoded by a single *)
(* synchronous call; the model draws the message, the options and the      *)
(* build flag in Init and lets a caller make the calls.                    *)
(*                                                                         *)
(* Strings are sequences of byte values so that Go's byte-wise string      *)
(* comparison and the decimal formatting of map keys are computed, not     *)
(* assumed.  The output of the json.Encoder is kept as the sequence of     *)
(* tokens written to it (StartObject, Name, String, ...).                  *)
(* Kinds float, double, bytes, sint/fixed variants are left out: they take *)
(* the same paths as the kinds modelled here.                              *)
(***************************************************************************)
EXTENDS Integers, Sequences, FiniteSets, TLC

(* Bounds of the model. *)
MaxPopulated == 2
MaxListLen == 2
MaxMapLen == 2

--------------------------------------------------------------------------
(* Strings as byte sequences. *)

(* Go's s < t on strings: byte-wise lexicographic order. *)
StrLess(s, t) ==
  \E i \in 1..Len(t) :
    /\ i - 1 <= Len(s)
    /\ \A j \in 1..(i - 1) : s[j] = t[j]
    /\ (Len(s) = i - 1 \/ s[i] < t[i])

RECURSIVE Digits(_)
Digits(n) ==
  IF n < 10 THEN <<48 + n>> ELSE Digits(n \div 10) \o <<48 + (n % 10)>>

(* strconv.FormatInt / FormatUint in base 10. *)
FormatInt(n) == IF n < 0 THEN <<45>> \o Digits(0 - n) ELSE Digits(n)

(* A byte that never occurs in well-formed UTF-8. *)
ValidUTF8(s) == \A i \in 1..Len(s) : s[i] # 255

(* protoreflect.FullName.Parent: the name without its last component. *)
RECURSIVE Parent(_)
Parent(name) ==
  IF name = <<>> THEN <<>>
  ELSE IF name[Len(name)] = 46 THEN SubSeq(name, 1, Len(name) - 1)
  ELSE Parent(SubSeq(name, 1, Len(name) - 1))

(* Name fragments used by the schema below. *)
S_a == <<97>>
S_ab == <<97, 98>>
S_B == <<66>>
S_bad == <<97, 255>>
S_true == <<116, 114, 117, 101>>
S_false == <<102, 97, 108, 115, 101>>
S_pExt == <<112, 46, 101, 120, 116>>
S_pExt2 == <<112, 46, 101, 120, 116, 50>>
S_pXm == <<112, 46, 120, 109>>
S_pIn == <<112, 46, 73, 110>>
S_msgSetExt == <<109, 101, 115, 115, 97, 103, 101, 95, 115, 101, 116, 95,
                 101, 120, 116, 101, 110, 115, 105, 111, 110>>
S_dur == <<48, 115>>
S_nullValueName == <<78, 85, 76, 76, 95, 86, 65, 76, 85, 69>>

--------------------------------------------------------------------------
(* Descriptors (protoreflect), read only.  A field descriptor carries what *)
(* the encoder asks of it; Id is its identity.  MapValue is the descriptor *)
(* of a map field's values.  A message descriptor lists its declared       *)
(* fields in declaration order.                                            *)

NoMapValue == [Kind |-> "nil", Enum |-> "nil"]

Field(id, name, kind, syntax) ==
  [ Id |-> id, Name |-> name, JSONName |-> name,
    FullName |-> <<112, 46>> \o name,
    Kind |-> kind, Cardinality |-> "optional", Syntax |-> syntax,
    Oneof |-> FALSE, IsExtension |-> FALSE, IsMessageSetExtension |-> FALSE,
    HasMessage |-> kind \in {"message", "group"}, MessageName |-> <<>>,
    Enum |-> "nil", IsList |-> FALSE, IsMap |-> FALSE,
    MapKey |-> "nil", MapValue |-> NoMapValue ]

MapField(id, name, keyKind, valueKind, valueEnum) ==
  [ Field(id, name, "message", "proto3") EXCEPT
      !.Cardinality = "repeated", !.IsMap = TRUE, !.MapKey = keyKind,
      !.MapValue = [Kind |-> valueKind, Enum |-> valueEnum] ]

FD ==
  [ rq   |-> [ Field("rq", <<114, 113>>, "int32", "proto2") EXCEPT
                 !.Cardinality = "required" ],
    mse  |-> [ Field("mse", S_msgSetExt, "message", "proto2") EXCEPT
                 !.FullName = S_pIn \o <<46>> \o S_msgSetExt,
                 !.IsExtension = TRUE, !.IsMessageSetExtension = TRUE,
                 !.MessageName = <<73, 110>> ],
    os   |-> [ Field("os", <<111, 95, 115>>, "string", "proto2") EXCEPT
                 !.JSONName = <<111, 83>> ],
    grp  |-> [ Field("grp", <<103, 114, 112>>, "group", "proto2") EXCEPT
                 !.MessageName = <<71, 114, 112>> ],
    in   |-> [ Field("in", <<105, 110>>, "message", "proto2") EXCEPT
                 !.MessageName = <<73, 110>> ],
    oo   |-> [ Field("oo", <<111, 111>>, "int32", "proto2") EXCEPT
                 !.Oneof = TRUE ],
    ms   |-> [ Field("ms", <<109, 115>>, "message", "proto2") EXCEPT
                 !.MessageName = <<77, 83, 101, 116>> ],
    li   |-> [ Field("li", <<108, 105>>, "int32", "proto2") EXCEPT
                 !.Cardinality = "repeated", !.IsList = TRUE ],
    d    |-> Field("d", <<100>>, "uint32", "proto2"),
    xa   |-> [ Field("xa", <<101, 120, 116>>, "int32", "proto2") EXCEPT
                 !.FullName = S_pExt, !.IsExtension = TRUE ],
    xb   |-> [ Field("xb", <<101, 120, 116, 50>>, "bool", "proto2") EXCEPT
                 !.FullName = S_pExt2, !.IsExtension = TRUE ],
    xm   |-> [ Field("xm", <<120, 109>>, "message", "proto2") EXCEPT
                 !.FullName = S_pXm, !.IsExtension = TRUE,
                 !.MessageName = <<77, 83, 101, 116>> ],
    b    |-> Field("b", <<98>>, "bool", "proto3"),
    n    |-> Field("n", <<110>>, "int32", "proto3"),
    s    |-> Field("s", <<115>>, "string", "proto3"),
    big  |-> Field("big", <<98, 105, 103>>, "int64", "proto3"),
    en   |-> [ Field("en", <<101, 110>>, "enum", "proto3") EXCEPT
                 !.Enum = "p.E" ],
    nv   |-> [ Field("nv", <<110, 118>>, "enum", "proto3") EXCEPT
                 !.Enum = "google.protobuf.NullValue" ],
    sub  |-> [ Field("sub", <<115, 117, 98>>, "message", "proto3") EXCEPT
                 !.MessageName = <<73, 110>> ],
    le   |-> [ Field("le", <<108, 101>>, "enum", "proto3") EXCEPT
                 !.Cardinality = "repeated", !.IsList = TRUE, !.Enum = "p.E" ],
    lm   |-> [ Field("lm", <<108, 109>>, "message", "proto3") EXCEPT
                 !.Cardinality = "repeated", !.IsList = TRUE,
                 !.MessageName = <<73, 110>> ],
    lms  |-> [ Field("lms", <<108, 109, 115>>, "message", "proto3") EXCEPT
                 !.Cardinality = "repeated", !.IsList = TRUE,
                 !.MessageName = <<77, 83, 101, 116>> ],
    mi   |-> MapField("mi", <<109, 105>>, "int32", "enum", "p.E"),
    mu   |-> MapField("mu", <<109, 117>>, "uint32", "enum",
                      "google.protobuf.NullValue"),
    mst  |-> MapField("mst", <<109, 115, 116>>, "string", "message", "nil"),
    mb   |-> MapField("mb", <<109, 98>>, "bool", "message", "nil") ]

Message(fullName, name, fields, exts) ==
  [ FullName |-> fullName, Name |-> name, Fields |-> fields,
    Extensions |-> exts, IsMessageSet |-> FALSE ]

MD ==
  [ In    |-> Message("p.In", <<73, 110>>, <<FD.rq>>, <<>>),
    MSet  |-> [ Message("p.MSet", <<77, 83, 101, 116>>, <<>>, <<FD.mse>>)
                  EXCEPT !.IsMessageSet = TRUE ],
    Grp   |-> Message("p.T2.Grp", <<71, 114, 112>>, <<>>, <<>>),
    Dur   |-> Message("google.protobuf.Duration",
                      <<68, 117, 114, 97, 116, 105, 111, 110>>, <<>>, <<>>),
    T2    |-> Message("p.T2", <<84, 50>>,
                      <<FD.os, FD.grp, FD.in, FD.oo, FD.ms, FD.li>>, <<>>),
    TX    |-> Message("p.TX", <<84, 88>>, <<FD.d>>, <<FD.xa, FD.xb, FD.xm>>),
    T3    |-> Message("p.T3", <<84, 51>>,
                      <<FD.b, FD.n, FD.s, FD.big, FD.en, FD.nv, FD.sub>>,
                      <<>>),
    TL    |-> Message("p.TL", <<84, 76>>, <<FD.le, FD.lm, FD.lms>>, <<>>),
    MI    |-> Message("p.MI", <<77, 73>>, <<FD.mi>>, <<>>),
    MU    |-> Message("p.MU", <<77, 85>>, <<FD.mu>>, <<>>),
    MST   |-> Message("p.MST", <<77, 83, 84>>, <<FD.mst>>, <<>>),
    MB    |-> Message("p.MB", <<77, 66>>, <<FD.mb>>, <<>>) ]

(* EnumValueDescriptors.ByNumber: found is FALSE for the nil descriptor. *)
ByNumber(enum, num) ==
  IF enum = "p.E" /\ num = 0 THEN [found |-> TRUE, Name |-> <<69, 48>>]
  ELSE IF enum = "p.E" /\ num = 1 THEN [found |-> TRUE, Name |-> <<69, 49>>]
  ELSE IF enum = "google.protobuf.NullValue" /\ num = 0
    THEN [found |-> TRUE, Name |-> S_nullValueName]
  ELSE [found |-> FALSE, Name |-> <<>>]

(* messageset.IsMessageSet and messageset.IsMessageSetExtension. *)
IsMessageSet(md) == md.IsMessageSet
IsMessageSetExtension(fd) == fd.IsMessageSetExtension

(* isCustomType: the well-known types with their own JSON rendering. *)
isCustomType(fullName) == fullName = "google.protobuf.Duration"

(* FieldDescriptor.Default().IsValid(): a default exists for scalar       *)
(* (non-message, non-repeated) fields only.                               *)
DefaultIsValid(fd) ==
  /\ fd.Kind \notin {"message", "group"}
  /\ fd.Cardinality # "repeated"

--------------------------------------------------------------------------
(* Values (protoreflect.Value) and messages (protoreflect.Message).        *)
(* A message is [desc, val, order]: desc is its descriptor, val maps the   *)
(* Id of each populated field to its value, order is the sequence of       *)
(* populated field descriptors as Range visits them.  A list is a sequence *)
(* of values, a map the sequence of its [key, value] entries in the order  *)
(* its Range visits them.                                                  *)

ValueOf(x) == [valid |-> TRUE, v |-> x]
InvalidValue == [valid |-> FALSE, v |-> <<>>]

Has(m, fd) == fd.Id \in DOMAIN m.val

(* Message.Get of an unpopulated field: the zero value of a scalar, an     *)
(* empty list or map, an empty message.                                    *)
ZeroValue(fd) ==
  IF fd.IsList \/ fd.IsMap THEN ValueOf(<<>>)
  ELSE CASE fd.Kind = "bool" -> ValueOf(FALSE)
         [] fd.Kind = "string" -> ValueOf(<<>>)
         [] fd.Kind \in {"message", "group"} ->
              ValueOf([val |-> <<>>, order |-> <<>>])
         [] OTHER -> ValueOf(0)

Get(m, fd) == IF Has(m, fd) THEN ValueOf(m.val[fd.Id]) ELSE ZeroValue(fd)

(* MapKey.String and Value.String of an integer. *)
KeyString(keyKind, k) ==
  CASE keyKind = "string" -> k
    [] keyKind = "bool" -> (IF k THEN S_true ELSE S_false)
    [] OTHER -> FormatInt(k)

(* proto.IsInitialized: every required field is set, in the message and    *)
(* in every populated message below it.                                    *)
RECURSIVE Initialized(_)
Initialized(m) ==
  LET fields == m.desc.Fields
      isMsg(kind) == kind \in {"message", "group"}
  IN /\ \A i \in 1..Len(fields) :
          fields[i].Cardinality = "required" => Has(m, fields[i])
     /\ \A i \in 1..Len(m.order) :
          LET fd == m.order[i]
              v == m.val[fd.Id]
          IN IF fd.IsMap
               THEN isMsg(fd.MapValue.Kind) =>
                      \A j \in 1..Len(v) : Initialized(v[j].value)
             ELSE IF fd.IsList
               THEN isMsg(fd.Kind) => \A j \in 1..Len(v) : Initialized(v[j])
             ELSE isMsg(fd.Kind) => Initialized(v)

IsInitialized(m) ==
  IF Initialized(m) THEN "nil" ELSE "proto: required field not set"

--------------------------------------------------------------------------
(* json.Encoder: the tokens written so far and the error of the last call. *)

Token(t, v) == [t |-> t, v |-> v]

(* json.NewEncoder: the indent may hold spaces and tabs only. *)
NewEncoder(indent) ==
  IF \A i \in 1..Len(indent) : indent[i] \in {32, 9}
    THEN [out |-> <<>>, err |-> "nil"]
    ELSE [out |-> <<>>, err |-> "json: invalid indent"]

Write(e, tok) == [e EXCEPT !.out = Append(@, tok)]
Fail(e, msg) == [e EXCEPT !.err = msg]

StartObject(e) == Write(e, Token("StartObject", <<>>))
EndObject(e) == Write(e, Token("EndObject", <<>>))
StartArray(e) == Write(e, Token("StartArray", <<>>))
EndArray(e) == Write(e, Token("EndArray", <<>>))
WriteNull(e) == Write(e, Token("Null", <<>>))
WriteBool(e, x) == Write(e, Token("Bool", x))
WriteInt(e, x) == Write(e, Token("Int", x))
WriteUint(e, x) == Write(e, Token("Uint", x))
WriteString(e, str) ==
  IF ValidUTF8(str) THEN Write(e, Token("String", str))
  ELSE Fail(e, "invalid UTF-8")
WriteName(e, str) ==
  IF ValidUTF8(str) THEN Write(e, Token("Name", str))
  ELSE Fail(e, "invalid UTF-8")

--------------------------------------------------------------------------
(* The program state: the message and options handed to Marshal, the       *)
(* build flag flags.ProtoLegacy, and what the calls returned.              *)

VARIABLES
  msg,          \* the message of the first call
  opts,         \* the MarshalOptions of the first call
  ProtoLegacy,  \* flags.ProtoLegacy
  pc,           \* "start", "called", "partial", "reordered"
  ret,          \* what the first call returned
  msg2,         \* the message of the second call
  opts2,        \* the MarshalOptions of the second call
  ret2          \* what the second call returned

vars == <<msg, opts, ProtoLegacy, pc, ret, msg2, opts2, ret2>>

--------------------------------------------------------------------------
(* The encoder.  Every operation takes the encoder state e and returns it  *)
(* with the tokens it wrote; e.err # "nil" is the error it returned.  A    *)
(* loop stops at the first error: its head returns e as soon as e.err is   *)
(* set.                                                                    *)

RECURSIVE marshalMessage(_, _, _)
RECURSIVE marshalFields(_, _, _)
RECURSIVE marshalFieldsFrom(_, _, _, _)
RECURSIVE marshalValue(_, _, _, _)
RECURSIVE marshalSingular(_, _, _, _)
RECURSIVE marshalList(_, _, _, _)
RECURSIVE marshalListFrom(_, _, _, _, _)
RECURSIVE marshalMap(_, _, _, _)
RECURSIVE marshalEntriesFrom(_, _, _, _, _)
RECURSIVE marshalExtensions(_, _, _)
RECURSIVE marshalExtensionsFrom(_, _, _, _)

(* marshalCustomType: the well-known type's own rendering replaces the     *)
(* object frame. *)
marshalCustomType(o, e, m) == WriteString(e, S_dur)

marshalMessage(o, e, m) ==
  IF isCustomType(m.desc.FullName) THEN marshalCustomType(o, e, m)
  ELSE EndObject(marshalFields(o, StartObject(e), m))

(* Variant: the group's type name is used whatever UseProtoNames says. *)
fieldName_groupAlways(o, fd) ==
  IF fd.Kind = "group" THEN fd.MessageName
  ELSE IF o.UseProtoNames THEN fd.Name ELSE fd.JSONName

(* The name marshalFields writes for a declared field. *)
fieldName(o, fd) ==
  IF o.UseProtoNames
    THEN IF fd.Kind = "group" THEN fd.MessageName ELSE fd.Name
    ELSE fd.JSONName

(* Variant: an unpopulated proto2 scalar keeps its default value. *)
fieldValue_proto2Default(o, m, fd) ==
  IF Has(m, fd) THEN Get(m, fd)
  ELSE IF fd.Cardinality # "repeated" /\ fd.HasMessage THEN InvalidValue
  ELSE Get(m, fd)

(* The value marshalFields hands to marshalValue for field fd. *)
fieldValue(o, m, fd) ==
  IF Has(m, fd) THEN Get(m, fd)
  ELSE LET isProto2Scalar == fd.Syntax = "proto2" /\ DefaultIsValid(fd)
           isSingularMessage == fd.Cardinality # "repeated" /\ fd.HasMessage
       IN IF isProto2Scalar \/ isSingularMessage THEN InvalidValue
          ELSE Get(m, fd)

(* Variant: EmitUnpopulated is not consulted. *)
skipField_ignoreOption(o, m, fd) == ~Has(m, fd) /\ fd.Oneof

(* Variant: oneof membership is not consulted. *)
skipField_emitOneof(o, m, fd) == ~Has(m, fd) /\ ~o.EmitUnpopulated

(* Whether the loop of marshalFields skips field fd. *)
skipField(o, m, fd) == ~Has(m, fd) /\ (~o.EmitUnpopulated \/ fd.Oneof)

(* The loop over the declared fields, from index i on. *)
marshalFieldsFrom(o, e, m, i) ==
  IF e.err # "nil" \/ i > Len(m.desc.Fields) THEN e
  ELSE IF skipField(o, m, m.desc.Fields[i])
    THEN marshalFieldsFrom(o, e, m, i + 1)
  ELSE LET fd == m.desc.Fields[i]
           e1 == WriteName(e, fieldName(o, fd))
       IN marshalFieldsFrom(
            o,
            IF e1.err # "nil" THEN e1
            ELSE marshalValue(o, e1, fieldValue(o, m, fd), fd),
            m, i + 1)

(* Variant: message sets are not rejected. *)
marshalFields_noMessageSetCheck(o, e, m) ==
  marshalExtensions(o, marshalFieldsFrom(o, e, m, 1), m)

marshalFields(o, e, m) ==
  IF ~ProtoLegacy /\ IsMessageSet(m.desc)
    THEN Fail(e, "no support for proto1 MessageSets")
  ELSE marshalExtensions(o, marshalFieldsFrom(o, e, m, 1), m)

marshalValue(o, e, val, fd) ==
  IF fd.IsList THEN marshalList(o, e, val.v, fd)
  ELSE IF fd.IsMap THEN marshalMap(o, e, val.v, fd)
  ELSE marshalSingular(o, e, val, fd)

(* Variant: a number without a name is an error. *)
marshalEnum_unknownFails(o, e, num, fd) ==
  IF fd.Enum = "google.protobuf.NullValue" THEN WriteNull(e)
  ELSE IF o.UseEnumNumbers THEN WriteInt(e, num)
  ELSE IF ~ByNumber(fd.Enum, num).found THEN Fail(e, "unknown enum value")
  ELSE WriteString(e, ByNumber(fd.Enum, num).Name)

(* The enum case of marshalSingular. *)
marshalEnum(o, e, num, fd) ==
  IF fd.Enum = "google.protobuf.NullValue" THEN WriteNull(e)
  ELSE IF o.UseEnumNumbers \/ ~ByNumber(fd.Enum, num).found
    THEN WriteInt(e, num)
  ELSE WriteString(e, ByNumber(fd.Enum, num).Name)

marshalSingular(o, e, val, fd) ==
  IF ~val.valid THEN WriteNull(e)
  ELSE CASE fd.Kind = "bool" -> WriteBool(e, val.v)
         [] fd.Kind = "string" -> WriteString(e, val.v)
         [] fd.Kind = "int32" -> WriteInt(e, val.v)
         [] fd.Kind = "uint32" -> WriteUint(e, val.v)
         [] fd.Kind \in {"int64", "uint64"} ->
              WriteString(e, FormatInt(val.v))
         [] fd.Kind = "enum" -> marshalEnum(o, e, val.v, fd)
         [] fd.Kind \in {"message", "group"} -> marshalMessage(o, e, val.v)

marshalListFrom(o, e, list, fd, i) ==
  IF e.err # "nil" \/ i > Len(list) THEN e
  ELSE marshalListFrom(o, marshalSingular(o, e, ValueOf(list[i]), fd),
                       list, fd, i + 1)

marshalList(o, e, list, fd) ==
  EndArray(marshalListFrom(o, StartArray(e), list, fd, 1))

(* Variant: every key kind is compared by its string form. *)
keyLess_byString(keyKind, x, y) ==
  StrLess(KeyString(keyKind, x.key), KeyString(keyKind, y.key))

(* The less function sortMap hands to sort.Slice. *)
keyLess(keyKind, x, y) ==
  CASE keyKind \in {"int32", "int64"} -> x.key < y.key
    [] keyKind \in {"uint32", "uint64"} -> x.key < y.key
    [] OTHER -> StrLess(KeyString(keyKind, x.key), KeyString(keyKind, y.key))

(* Variant: the entries stay in Range's order. *)
sortMap_unsorted(keyKind, values) == values

(* sort.Slice on entries with distinct keys: the one arrangement that is   *)
(* ascending under the less function.                                      *)
sortMap(keyKind, values) ==
  LET insert(sorted, x) ==
        LET k == Cardinality({j \in 1..Len(sorted) :
                                ~keyLess(keyKind, x, sorted[j])})
        IN SubSeq(sorted, 1, k) \o <<x>> \o SubSeq(sorted, k + 1, Len(sorted))
      upTo[n \in 0..Len(values)] ==
        IF n = 0 THEN <<>> ELSE insert(upTo[n - 1], values[n])
  IN upTo[Len(values)]

marshalEntriesFrom(o, e, entries, fd, i) ==
  IF e.err # "nil" \/ i > Len(entries) THEN e
  ELSE LET e1 == WriteName(e, KeyString(fd.MapKey, entries[i].key))
       IN marshalEntriesFrom(
            o,
            IF e1.err # "nil" THEN e1
            ELSE marshalSingular(o, e1, ValueOf(entries[i].value), fd.MapValue),
            entries, fd, i + 1)

marshalMap(o, e, mmap, fd) ==
  EndObject(marshalEntriesFrom(o, StartObject(e), sortMap(fd.MapKey, mmap),
                               fd, 1))

(* The entries marshalExtensions collects from Range, in Range's order. *)
extensionEntries(m) ==
  LET ext == SelectSeq(m.order, LAMBDA fd : fd.IsExtension)
  IN [i \in 1..Len(ext) |->
        [key |-> IF IsMessageSetExtension(ext[i])
                   THEN Parent(ext[i].FullName)
                   ELSE ext[i].FullName,
         value |-> ValueOf(m.val[ext[i].Id]),
         desc |-> ext[i]]]

(* Variant: the entries stay in Range's order. *)
sortExtensions_unsorted(entries) == entries

(* sort.Slice(entries, entries[i].key < entries[j].key). *)
sortExtensions(entries) ==
  LET insert(sorted, x) ==
        LET k == Cardinality({j \in 1..Len(sorted) :
                                ~StrLess(x.key, sorted[j].key)})
        IN SubSeq(sorted, 1, k) \o <<x>> \o SubSeq(sorted, k + 1, Len(sorted))
      upTo[n \in 0..Len(entries)] ==
        IF n = 0 THEN <<>> ELSE insert(upTo[n - 1], entries[n])
  IN upTo[Len(entries)]

marshalExtensionsFrom(o, e, entries, i) ==
  IF e.err # "nil" \/ i > Len(entries) THEN e
  ELSE LET e1 == WriteName(e, <<91>> \o entries[i].key \o <<93>>)
       IN marshalExtensionsFrom(
            o,
            IF e1.err # "nil" THEN e1
            ELSE marshalValue(o, e1, entries[i].value, entries[i].desc),
            entries, i + 1)

marshalExtensions(o, e, m) ==
  IF e.err # "nil" THEN e
  ELSE marshalExtensionsFrom(o, e, sortExtensions(extensionEntries(m)), 1)

(* What Marshal returns: the bytes (nil, or the tokens written) and the    *)
(* error.                                                                  *)
Return(isNil, bytes, err) == [nil |-> isNil, bytes |-> bytes, err |-> err]

(* Variant: an incomplete message returns no bytes. *)
marshalReturn_noBytesOnIncomplete(o, m, e) ==
  IF e.err # "nil" THEN Return(TRUE, <<>>, e.err)
  ELSE IF o.AllowPartial \/ IsInitialized(m) = "nil"
    THEN Return(FALSE, e.out, "nil")
  ELSE Return(TRUE, <<>>, IsInitialized(m))

(* The end of MarshalOptions.Marshal, e being the encoder after            *)
(* marshalMessage.                                                         *)
marshalReturn(o, m, e) ==
  IF e.err # "nil" THEN Return(TRUE, <<>>, e.err)
  ELSE IF o.AllowPartial THEN Return(FALSE, e.out, "nil")
  ELSE Return(FALSE, e.out, IsInitialized(m))

MarshalOptionsMarshal(o, m) ==
  IF NewEncoder(o.Indent).err # "nil"
    THEN Return(TRUE, <<>>, NewEncoder(o.Indent).err)
  ELSE marshalReturn(o, m, marshalMessage(o, NewEncoder(o.Indent), m))

(* MarshalOptions{}: the zero value of every option. *)
DefaultOptions ==
  [ AllowPartial |-> FALSE, UseProtoNames |-> FALSE, UseEnumNumbers |-> FALSE,
    EmitUnpopulated |-> FALSE, Indent |-> <<>> ]

Marshal(m) == MarshalOptionsMarshal(DefaultOptions, m)

--------------------------------------------------------------------------
(* The inputs: the messages, options and flag a caller may hand over.      *)

In0 == [desc |-> MD.In, val |-> <<>>, order |-> <<>>]
In5 == [desc |-> MD.In, val |-> ("rq" :> 5), order |-> <<FD.rq>>]
MSet0 == [desc |-> MD.MSet, val |-> <<>>, order |-> <<>>]
Grp0 == [desc |-> MD.Grp, val |-> <<>>, order |-> <<>>]
Entry(k, v) == [key |-> k, value |-> v]

(* The values a populated field, list element or map entry may hold. *)
Candidates(id) ==
  CASE id = "rq" -> <<5>>
    [] id = "mse" -> <<In0, In5>>
    [] id = "os" -> <<S_a, S_bad>>
    [] id = "grp" -> <<Grp0>>
    [] id = "in" -> <<In0, In5>>
    [] id = "oo" -> <<0>>
    [] id = "ms" -> <<MSet0>>
    [] id = "li" -> <<7>>
    [] id = "d" -> <<3>>
    [] id = "xa" -> <<1>>
    [] id = "xb" -> <<TRUE>>
    [] id = "xm" -> <<MSet0>>
    [] id = "b" -> <<TRUE>>
    [] id = "n" -> <<-4>>
    [] id = "s" -> <<S_a>>
    [] id = "big" -> <<12>>
    [] id = "en" -> <<1, 7>>
    [] id = "nv" -> <<5>>
    [] id = "sub" -> <<In0, In5>>
    [] id = "le" -> <<1, 7>>
    [] id = "lm" -> <<In0>>
    [] id = "lms" -> <<MSet0>>
    [] id = "mi" -> <<Entry(10, 0), Entry(-1, 1), Entry(2, 7)>>
    [] id = "mu" -> <<Entry(10, 5), Entry(2, 0)>>
    [] id = "mst" ->
         <<Entry(S_ab, MSet0), Entry(S_a, MSet0), Entry(S_B, MSet0)>>
    [] id = "mb" -> <<Entry(TRUE, In5), Entry(FALSE, In0)>>

Min(a, b) == IF a < b THEN a ELSE b

(* The sequences of length n over S without a repeated element. *)
Arrangements(S, n) ==
  {q \in [1..n -> S] : \A i, j \in 1..n : q[i] = q[j] => i = j}

(* How a populated field picks among its candidates: one index for a      *)
(* singular field, the element indices of a list, the entry indices of a   *)
(* map (keys are unique; the entries start out stored in index order).     *)
Picks(fd) ==
  LET idx == 1..Len(Candidates(fd.Id)) IN
  IF fd.IsList THEN UNION {[1..k -> idx] : k \in 1..MaxListLen}
  ELSE IF fd.IsMap
    THEN {q \in UNION {Arrangements(idx, k) :
                         k \in 1..Min(MaxMapLen, Len(Candidates(fd.Id)))} :
            \A i \in 1..(Len(q) - 1) : q[i] < q[i + 1]}
  ELSE {<<i>> : i \in idx}

(* The populated fields of a message with their picks: at most budget of   *)
(* the fields fs are populated.                                            *)
RECURSIVE Population(_, _)
Population(fs, budget) ==
  IF fs = <<>> THEN {<<>>}
  ELSE Population(Tail(fs), budget) \cup
       (IF budget = 0 THEN {}
        ELSE {(Head(fs).Id :> c) @@ r :
                c \in Picks(Head(fs)), r \in Population(Tail(fs), budget - 1)})

FieldValue(fd, pick) ==
  IF fd.IsList \/ fd.IsMap
    THEN [i \in 1..Len(pick) |-> Candidates(fd.Id)[pick[i]]]
    ELSE Candidates(fd.Id)[pick[1]]

AllFields(md) == md.Fields \o md.Extensions

(* The message of descriptor md with the given populated fields, stored   *)
(* in the order of AllFields.                                              *)
NewMessage(md, population) ==
  LET populated == SelectSeq(AllFields(md),
                             LAMBDA fd : fd.Id \in DOMAIN population)
  IN [ desc |-> md,
       val |-> [id \in DOMAIN population |->
                  LET fd == CHOOSE f \in {populated[i] :
                                            i \in 1..Len(populated)} :
                              f.Id = id
                  IN FieldValue(fd, population[id])],
       order |-> populated ]

Descriptors ==
  { MD.In, MD.MSet, MD.Grp, MD.Dur, MD.T2, MD.TX, MD.T3, MD.TL, MD.MI,
    MD.MU, MD.MST, MD.MB }

Options ==
  [ AllowPartial : BOOLEAN, UseProtoNames : BOOLEAN, UseEnumNumbers : BOOLEAN,
    EmitUnpopulated : BOOLEAN, Indent : {<<>>, <<120>>} ]

NotCalled == [nil |-> TRUE, bytes |-> <<>>, err |-> "not called"]

(* The same message with its maps and its populated fields stored in       *)
(* another order: p arranges the populated fields, q the entries of each   *)
(* populated map.                                                          *)
Reordered(m, p, q) ==
  [ desc |-> m.desc,
    val |-> [id \in DOMAIN m.val |->
               IF id \in DOMAIN q
                 THEN [i \in 1..Len(m.val[id]) |-> m.val[id][q[id][i]]]
                 ELSE m.val[id]],
    order |-> [i \in 1..Len(m.order) |-> m.order[p[i]]] ]

MapsOf(m) == {m.order[i].Id : i \in {j \in 1..Len(m.order) : m.order[j].IsMap}}

EntryOrders(m) ==
  {q \in [MapsOf(m) ->
            UNION {Arrangements(1..k, k) : k \in 1..(MaxMapLen + 1)}] :
     \A id \in MapsOf(m) : Len(q[id]) = Len(m.val[id])}

--------------------------------------------------------------------------
(* The specification. *)

Init ==
  /\ \E md \in Descriptors :
       \E population \in Population(AllFields(md), MaxPopulated) :
         msg = NewMessage(md, population)
  /\ opts \in Options
  /\ ProtoLegacy \in BOOLEAN
  /\ pc = "start"
  /\ ret = NotCalled
  /\ msg2 = msg
  /\ opts2 = opts
  /\ ret2 = NotCalled

(* Marshal(m): the call with default options. *)
CallMarshal ==
  /\ pc = "start"
  /\ opts' = DefaultOptions
  /\ opts2' = DefaultOptions
  /\ ret' = Marshal(msg)
  /\ pc' = "called"
  /\ UNCHANGED <<msg, ProtoLegacy, msg2, ret2>>

(* o.Marshal(m). *)
CallMarshalOptions ==
  /\ pc = "start"
  /\ ret' = MarshalOptionsMarshal(opts, msg)
  /\ pc' = "called"
  /\ UNCHANGED <<msg, opts, ProtoLegacy, msg2, opts2, ret2>>

(* A second call on the same message with AllowPartial the other way. *)
CallOtherPartial ==
  /\ pc = "called"
  /\ opts2' = [opts EXCEPT !.AllowPartial = ~@]
  /\ ret2' = MarshalOptionsMarshal(opts2', msg)
  /\ pc' = "partial"
  /\ UNCHANGED <<msg, opts, ProtoLegacy, ret, msg2>>

(* A second call with the same options on the same content stored in       *)
(* another order.                                                          *)
CallReordered ==
  /\ pc = "called"
  /\ \E p \in Arrangements(1..Len(msg.order), Len(msg.order)) :
       \E q \in EntryOrders(msg) :
         msg2' = Reordered(msg, p, q)
  /\ ret2' = MarshalOptionsMarshal(opts, msg2')
  /\ pc' = "reordered"
  /\ UNCHANGED <<msg, opts, ProtoLegacy, ret, opts2>>

Next ==
  \/ CallMarshal
  \/ CallMarshalOptions
  \/ CallOtherPartial
  \/ CallReordered

Spec == Init /\ [][Next]_vars

--------------------------------------------------------------------------
(* Reading a result: the object entries of the written tokens.             *)

(* The number of objects and arrays open before token i. *)
Depth(toks, i) ==
  Cardinality({j \in 1..(i - 1) : toks[j].t \in {"StartObject", "StartArray"}})
    - Cardinality({j \in 1..(i - 1) : toks[j].t \in {"EndObject", "EndArray"}})

(* The positions of the names written directly inside d open containers. *)
NameIdx(toks, d) ==
  {i \in 1..Len(toks) : toks[i].t = "Name" /\ Depth(toks, i) = d}

Ascending(S) ==
  [k \in 1..Cardinality(S) |->
     CHOOSE i \in S : Cardinality({j \in S : j < i}) = k - 1]

(* The names written at depth d, in output order. *)
NamesAt(toks, d) ==
  [k \in 1..Cardinality(NameIdx(toks, d)) |->
     toks[Ascending(NameIdx(toks, d))[k]].v]

Count(names, name) == Cardinality({i \in 1..Len(names) : names[i] = name})

IsBracketed(name) ==
  Len(name) >= 2 /\ name[1] = 91 /\ name[Len(name)] = 93

Unbracket(name) == SubSeq(name, 2, Len(name) - 1)

(* The name an extension is known by: its full name, or for a message-set  *)
(* extension the full name of its parent.                                  *)
ExtensionName(fd) ==
  IF fd.IsMessageSetExtension THEN Parent(fd.FullName) ELSE fd.FullName

PopulatedExtensions(m) == SelectSeq(m.order, LAMBDA fd : fd.IsExtension)

(* The declared fields that get an entry. *)
EmittedFields(m, o) ==
  SelectSeq(m.desc.Fields,
            LAMBDA fd : Has(m, fd) \/ (o.EmitUnpopulated /\ ~fd.Oneof))

(* The name of a declared field's entry. *)
ExpectedName(o, fd) ==
  IF ~o.UseProtoNames THEN fd.JSONName
  ELSE IF fd.Kind = "group" THEN fd.MessageName
  ELSE fd.Name

IndentValid(o) == \A i \in 1..Len(o.Indent) : o.Indent[i] \in {32, 9}

IsMessageKind(kind) == kind \in {"message", "group"}

(* The traversal of m meets a message of a message-set type. *)
RECURSIVE ReachesMessageSet(_)
ReachesMessageSet(m) ==
  /\ ~isCustomType(m.desc.FullName)
  /\ \/ m.desc.IsMessageSet
     \/ \E i \in 1..Len(m.order) :
          LET fd == m.order[i]
              v == m.val[fd.Id]
          IN IF fd.IsMap
               THEN /\ IsMessageKind(fd.MapValue.Kind)
                    /\ \E j \in 1..Len(v) : ReachesMessageSet(v[j].value)
             ELSE IF fd.IsList
               THEN /\ IsMessageKind(fd.Kind)
                    /\ \E j \in 1..Len(v) : ReachesMessageSet(v[j])
             ELSE IsMessageKind(fd.Kind) /\ ReachesMessageSet(v)

(* A property of one call holds of the call just made: the first call on  *)
(* the message as stored, or the second call.                              *)
EveryCall(P(_, _, _)) ==
  /\ pc = "called" => P(msg, opts, ret)
  /\ pc \in {"partial", "reordered"} => P(msg2, opts2, ret2)

--------------------------------------------------------------------------
(* C1: the bytes do not depend on AllowPartial.  Of two calls on the same  *)
(* message that differ in AllowPartial only, either both return bytes or   *)
(* neither does; when they do the bytes are the same, the call with        *)
(* AllowPartial set returns no error, and the call with AllowPartial unset *)
(* returns an error exactly when a required field is missing.              *)
C1_AllowPartialSameBytes ==
  pc = "partial" =>
    LET strict == IF opts.AllowPartial THEN ret2 ELSE ret
        partial == IF opts.AllowPartial THEN ret ELSE ret2
    IN /\ strict.nil = partial.nil
       /\ ~partial.nil =>
            /\ strict.bytes = partial.bytes
            /\ partial.err = "nil"
            /\ strict.err # "nil" <=> ~Initialized(msg)

(* An incomplete message marshalled both ways: same non-empty bytes, an    *)
(* error from one call only.                                               *)
C1_Witness ==
  /\ pc = "partial"
  /\ ~ret.nil /\ ~ret2.nil
  /\ ~Initialized(msg)
  /\ Len(ret.bytes) > 2
  /\ ret.bytes = ret2.bytes
  /\ ret.err # ret2.err

(* C2: with ProtoLegacy off, a traversal that meets a message-set message  *)
(* returns an error and nil bytes; the only error returned together with   *)
(* bytes is the missing-required-field error.                              *)
MessageSetRejected(m, o, r) ==
  /\ (~ProtoLegacy /\ ReachesMessageSet(m)) => (r.nil /\ r.err # "nil")
  /\ (~r.nil /\ r.err # "nil") =>
       (r.err = "proto: required field not set" /\ ~o.AllowPartial)

C2_MessageSetRejected == EveryCall(MessageSetRejected)

(* A message set below the top level is met with ProtoLegacy off and       *)
(* AllowPartial on.                                                        *)
C2_Witness ==
  /\ pc = "called"
  /\ ~ProtoLegacy
  /\ opts.AllowPartial
  /\ ~msg.desc.IsMessageSet
  /\ ReachesMessageSet(msg)
  /\ ret.nil
  /\ ret.err = "no support for proto1 MessageSets"

(* C5: the result does not depend on the order in which Range visits the   *)
(* populated fields and the entries of a map.                              *)
C5_Deterministic == pc = "reordered" => ret2 = ret

(* The entries of a map are stored in another order and the call returns   *)
(* bytes.                                                                  *)
C5_Witness ==
  /\ pc = "reordered"
  /\ ~ret.nil
  /\ \E id \in MapsOf(msg) : msg2.val[id] # msg.val[id]

--------------------------------------------------------------------------
(* The order of map keys: numeric for the signed and unsigned integer      *)
(* kinds, byte-wise for strings, false before true for booleans.           *)
KeyBefore(keyKind, a, b) ==
  CASE keyKind = "string" -> StrLess(a, b)
    [] keyKind = "bool" -> (~a /\ b)
    [] OTHER -> a < b

(* The descriptor of the populated field with the given Id. *)
PopulatedField(m, id) ==
  m.order[CHOOSE i \in 1..Len(m.order) : m.order[i].Id = id]

(* C3: the keys of a populated map are written once each, in strictly      *)
(* ascending order of the key kind.  (Every message with a map field has   *)
(* that field only, so the names at depth 2 are the keys of the map.)      *)
MapKeysAscending(m, o, r) ==
  ~r.nil =>
    \A id \in MapsOf(m) :
      LET keyKind == PopulatedField(m, id).MapKey
          entries == m.val[id]
          n == Len(entries)
      IN \E q \in Arrangements(1..n, n) :
           /\ \A i \in 1..(n - 1) :
                KeyBefore(keyKind, entries[q[i]].key, entries[q[i + 1]].key)
           /\ NamesAt(r.bytes, 2) =
                [i \in 1..n |-> KeyString(keyKind, entries[q[i]].key)]

C3_MapKeysAscending == EveryCall(MapKeysAscending)

(* A map holding the integer keys 10 and 2, stored in that order, has been *)
(* written with 2 first.                                                   *)
C3_Witness ==
  /\ pc = "called"
  /\ ~ret.nil
  /\ "mi" \in MapsOf(msg)
  /\ Len(msg.val["mi"]) = 2
  /\ msg.val["mi"][1].key = 10
  /\ msg.val["mi"][2].key = 2
  /\ NamesAt(ret.bytes, 2) = <<FormatInt(2), FormatInt(10)>>

(* The shape shared by both readings of C4: the entries of the populated   *)
(* extensions, and no others, are bracketed and come last.                 *)
ExtensionsLast(m, r) ==
  LET names == NamesAt(r.bytes, 1)
      n == Len(names)
      exts == PopulatedExtensions(m)
      k == Len(exts)
  IN /\ k <= n
     /\ \A i \in 1..n : IsBracketed(names[i]) <=> i > n - k
     /\ {Unbracket(names[i]) : i \in (n - k + 1)..n} =
          {ExtensionName(exts[i]) : i \in 1..k}

(* C4 as stated: the extension entries follow the declared fields and are  *)
(* in byte-wise order of their bracketed names.                            *)
ExtensionsByBracketedName(m, o, r) ==
  ~r.nil =>
    /\ ExtensionsLast(m, r)
    /\ LET names == NamesAt(r.bytes, 1)
       IN \A i, j \in 1..Len(names) :
            (i < j /\ IsBracketed(names[i]) /\ IsBracketed(names[j])) =>
              StrLess(names[i], names[j])

C4_BracketedOrder == EveryCall(ExtensionsByBracketedName)

(* C4: the extension entries follow the declared fields and are in         *)
(* byte-wise order of their names without the brackets.                    *)
ExtensionsByName(m, o, r) ==
  ~r.nil =>
    /\ ExtensionsLast(m, r)
    /\ LET names == NamesAt(r.bytes, 1)
       IN \A i, j \in 1..Len(names) :
            (i < j /\ IsBracketed(names[i]) /\ IsBracketed(names[j])) =>
              StrLess(Unbracket(names[i]), Unbracket(names[j]))

C4_ExtensionsByName == EveryCall(ExtensionsByName)

(* Two extensions stored with p.ext2 first have been written after the     *)
(* declared field, p.ext first.                                            *)
C4_Witness ==
  /\ pc = "reordered"
  /\ ~ret2.nil
  /\ Len(msg2.order) = 2
  /\ msg2.order[1].Id = "xb"
  /\ msg2.order[2].Id = "xa"
  /\ NamesAt(ret2.bytes, 1) =
       <<<<91>> \o S_pExt \o <<93>>, <<91>> \o S_pExt2 \o <<93>>>>

--------------------------------------------------------------------------
IsEmptyObject(r) ==
  /\ ~r.nil
  /\ Len(r.bytes) = 2
  /\ r.bytes[1].t = "StartObject"
  /\ r.bytes[2].t = "EndObject"

(* C6 as stated: a message with every field unset marshals to {} when      *)
(* EmitUnpopulated is off.                                                 *)
EmptyObjectAlways(m, o, r) ==
  (DOMAIN m.val = {} /\ ~o.EmitUnpopulated) => IsEmptyObject(r)

C6_EmptyObjectAlways == EveryCall(EmptyObjectAlways)

(* C6: a message with every field unset marshals to {} when                *)
(* EmitUnpopulated is off, provided the indent is valid, the message is    *)
(* not of a custom-rendered type and it is not a message set rejected      *)
(* because ProtoLegacy is off.                                             *)
EmptyObject(m, o, r) ==
  ( /\ DOMAIN m.val = {}
    /\ ~o.EmitUnpopulated
    /\ IndentValid(o)
    /\ ~isCustomType(m.desc.FullName)
    /\ ProtoLegacy \/ ~m.desc.IsMessageSet )
  => (IsEmptyObject(r) /\ (o.AllowPartial => r.err = "nil"))

C6_EmptyObject == EveryCall(EmptyObject)

(* A message that declares fields and has none populated has been written  *)
(* as {}.                                                                  *)
C6_Witness ==
  /\ pc = "called"
  /\ DOMAIN msg.val = {}
  /\ Len(msg.desc.Fields) > 1
  /\ ~opts.EmitUnpopulated
  /\ IsEmptyObject(ret)

--------------------------------------------------------------------------
(* How a valid enum value is rendered. *)
EnumToken(o, enum, num, tok) ==
  IF enum = "google.protobuf.NullValue" THEN tok.t = "Null"
  ELSE IF o.UseEnumNumbers \/ ~ByNumber(enum, num).found
    THEN tok.t = "Int" /\ tok.v = num
  ELSE tok.t = "String" /\ tok.v = ByNumber(enum, num).Name

(* The rendering of the zero value of a scalar: 64-bit integers are JSON   *)
(* strings, enums follow EnumToken.                                        *)
ZeroToken(o, fd, tok) ==
  CASE fd.Kind = "bool" -> tok.t = "Bool" /\ tok.v = FALSE
    [] fd.Kind = "string" -> tok.t = "String" /\ tok.v = <<>>
    [] fd.Kind = "int32" -> tok.t = "Int" /\ tok.v = 0
    [] fd.Kind = "uint32" -> tok.t = "Uint" /\ tok.v = 0
    [] fd.Kind \in {"int64", "uint64"} -> tok.t = "String" /\ tok.v = <<48>>
    [] fd.Kind = "enum" -> EnumToken(o, fd.Enum, 0, tok)

(* The value written at position p for the unpopulated field fd. *)
UnpopulatedRendering(o, fd, toks, p) ==
  IF fd.IsList
    THEN toks[p].t = "StartArray" /\ toks[p + 1].t = "EndArray"
  ELSE IF fd.IsMap
    THEN toks[p].t = "StartObject" /\ toks[p + 1].t = "EndObject"
  ELSE IF IsMessageKind(fd.Kind) THEN toks[p].t = "Null"
  ELSE IF fd.Syntax = "proto2" THEN toks[p].t = "Null"
  ELSE ZeroToken(o, fd, toks[p])

(* C7: with EmitUnpopulated, an unpopulated declared field outside a oneof *)
(* is written as null when it is a proto2 scalar or a singular message, as *)
(* its zero value when it is a proto3 scalar, as [] when it is a list and  *)
(* as {} when it is a map.                                                 *)
UnpopulatedValues(m, o, r) ==
  (o.EmitUnpopulated /\ ~r.nil) =>
    \A i \in 1..Len(m.desc.Fields) :
      LET fd == m.desc.Fields[i]
      IN (~Has(m, fd) /\ ~fd.Oneof) =>
           \E p \in NameIdx(r.bytes, 1) :
             /\ r.bytes[p].v = ExpectedName(o, fd)
             /\ UnpopulatedRendering(o, fd, r.bytes, p + 1)

EntryIffEmitted(m, o, r) ==
  ~r.nil =>
    LET names == NamesAt(r.bytes, 1)
        emitted == EmittedFields(m, o)
    IN /\ \A i \in 1..Len(m.desc.Fields) :
            LET fd == m.desc.Fields[i]
            IN Count(names, ExpectedName(o, fd)) =
                 IF Has(m, fd) \/ (o.EmitUnpopulated /\ ~fd.Oneof)
                   THEN 1 ELSE 0
       /\ \A i \in 1..Len(m.desc.Extensions) :
            LET fd == m.desc.Extensions[i]
            IN Count(names, <<91>> \o ExtensionName(fd) \o <<93>>) =
                 IF Has(m, fd) THEN 1 ELSE 0
       /\ Len(names) = Len(emitted) + Len(PopulatedExtensions(m))
       /\ \A p \in 1..Len(r.bytes) :
            r.bytes[p].t = "Name" =>
              /\ p < Len(r.bytes)
              /\ r.bytes[p + 1].t \notin {"Name", "EndObject", "EndArray"}

C8_EntryIffEmitted == EveryCall(EntryIffEmitted)

(* With EmitUnpopulated, a message with an unset oneof member and a set    *)
(* field has been written.                                                 *)
C8_Witness ==
  /\ pc = "called"
  /\ opts.EmitUnpopulated
  /\ ~ret.nil
  /\ msg.desc.FullName = "p.T2"
  /\ "oo" \notin DOMAIN msg.val
  /\ "os" \in DOMAIN msg.val
  /\ Count(NamesAt(ret.bytes, 1), <<111, 111>>) = 0

(* The name of a declared field's entry as C9 states it. *)
StatedName(o, fd) ==
  IF fd.Kind = "group" THEN fd.MessageName
  ELSE IF o.UseProtoNames THEN fd.Name
  ELSE fd.JSONName

(* C9 as stated: a group field is written under the name of its message    *)
(* type whatever UseProtoNames says.                                       *)
GroupNameInEitherMode(m, o, r) ==
  ~r.nil =>
    LET names == NamesAt(r.bytes, 1)
        emitted == EmittedFields(m, o)
    IN /\ Len(names) >= Len(emitted)
       /\ \A i \in 1..Len(emitted) : names[i] = StatedName(o, emitted[i])

C9_GroupNameInEitherMode == EveryCall(GroupNameInEitherMode)

(* C9: a declared field is written under its JSON name when UseProtoNames  *)
(* is off; when it is on, under its declared name, or for a group field    *)
(* under the name of its message type.                                     *)
FieldNames(m, o, r) ==
  ~r.nil =>
    LET names == NamesAt(r.bytes, 1)
        emitted == EmittedFields(m, o)
    IN /\ Len(names) >= Len(emitted)
       /\ \A i \in 1..Len(emitted) : names[i] = ExpectedName(o, emitted[i])

C9_FieldNames == EveryCall(FieldNames)

(* A populated group field has been written with UseProtoNames off, under  *)
(* its JSON name.                                                          *)
C9_Witness ==
  /\ pc = "called"
  /\ ~opts.UseProtoNames
  /\ ~ret.nil
  /\ "grp" \in DOMAIN msg.val
  /\ Count(NamesAt(ret.bytes, 1), <<103, 114, 112>>) = 1
  /\ Count(NamesAt(ret.bytes, 1), <<71, 114, 112>>) = 0

(* Every populated field of m holds enum values only. *)
OnlyEnums(m) ==
  /\ Len(m.order) > 0
  /\ \A i \in 1..Len(m.order) :
       IF m.order[i].IsMap THEN m.order[i].MapValue.Kind = "enum"
       ELSE m.order[i].Kind = "enum"

(* C10: an enum value, as a singular field, a list element or a map value, *)
(* is written as null when its type is google.protobuf.NullValue, else as  *)
(* its number when UseEnumNumbers is set or the number has no name, else   *)
(* as its name; a number without a name is not an error.                   *)
EnumRendering(m, o, r) ==
  /\ ~r.nil =>
       \A i \in 1..Len(m.order) :
         LET fd == m.order[i]
             v == m.val[fd.Id]
             toks == r.bytes
         IN IF fd.IsMap
              THEN fd.MapValue.Kind = "enum" =>
                     \A j \in 1..Len(v) :
                       \E p \in NameIdx(toks, 2) :
                         /\ toks[p].v = KeyString(fd.MapKey, v[j].key)
                         /\ EnumToken(o, fd.MapValue.Enum, v[j].value,
                                      toks[p + 1])
            ELSE fd.Kind = "enum" =>
                   \E p \in NameIdx(toks, 1) :
                     /\ toks[p].v = ExpectedName(o, fd)
                     /\ IF fd.IsList
                          THEN /\ toks[p + 1].t = "StartArray"
                               /\ \A j \in 1..Len(v) :
                                    EnumToken(o, fd.Enum, v[j],
                                              toks[p + 1 + j])
                               /\ toks[p + 2 + Len(v)].t = "EndArray"
                          ELSE EnumToken(o, fd.Enum, v, toks[p + 1])
  /\ (OnlyEnums(m) /\ IndentValid(o)) => (~r.nil /\ r.err = "nil")

C10_EnumRendering == EveryCall(EnumRendering)

(* The enum number 7, which has no name, has been written as a number      *)
(* with UseEnumNumbers off.                                                *)
C10_Witness ==
  /\ pc = "called"
  /\ ~opts.UseEnumNumbers
  /\ ~ret.nil /\ ret.err = "nil"
  /\ "en" \in DOMAIN msg.val
  /\ msg.val["en"] = 7
  /\ \E p \in 1..Len(ret.bytes) : ret.bytes[p].t = "Int" /\ ret.bytes[p].v = 7

====
